---- MODULE Spec2Model ----
(***************************************************************************)
(* Model of src/utils.py: the two timeline level routines                  *)
(* (generate_timeline_levels, get_timeline_levels), the place in           *)
(* visualize_timeline that stores their result, and millions_formatter.    *)
(*                                                                         *)
(* A behaviour is one call.  Init draws the call and its arguments; the    *)
(* loop of generate_timeline_levels is taken one record per step, so that  *)
(* every intermediate value of its locals is a state.                      *)
(*                                                                         *)
(* Python strings produced by the formatter are sequences of one-character *)
(* strings, so that formatting is a computation and not an identity.       *)
(***************************************************************************)
EXTENDS Integers, Sequences, FiniteSets, TLC

VARIABLES
    call,               \* the function invoked: "visualize_timeline" or "millions_formatter"
    auto_levels,        \* visualize_timeline's flag
    series,             \* plotting_df["series"], the argument of both level routines
    pc,                 \* position in the call
    series_side_dict,   \* generate_timeline_levels: series name -> coefficient
    positive_level,     \* generate_timeline_levels local
    negative_level,     \* generate_timeline_levels local
    next_coef,          \* generate_timeline_levels local
    levels,             \* generate_timeline_levels local (the list being built)
    i,                  \* number of records the for loop has consumed
    ret,                \* the list returned by the level routine
    column,             \* plotting_df["level"] once assigned
    raised_in,          \* the function an exception was raised in, or "none"
    value,              \* millions_formatter argument
    pos,                \* millions_formatter argument
    text                \* millions_formatter result

vars == << call, auto_levels, series, pc, series_side_dict, positive_level,
           negative_level, next_coef, levels, i, ret, column, raised_in,
           value, pos, text >>

timelineVars == << auto_levels, series, series_side_dict, positive_level,
                   negative_level, next_coef, levels, i, ret, column, raised_in >>

formatVars == << value, pos, text >>

----------------------------------------------------------------------------
(* Bounds of the model *)

\* every sequence of series names up to this length is an input
MaxShort == 5
\* every periodic sequence of series names with a period up to this is an input ...
MaxPeriod == 3
\* ... at every length up to this one (more than the 63 entries of the table,
\* and enough records to reset both counters more than once)
MaxRecords == 65
\* every value from 0 up to this one is formatted
MaxSmall == 2600
\* every multiple of 500 up to 500 * this is formatted
MaxHalfThousands == 3000
\* tick positions handed to the formatter
MaxPos == 1

----------------------------------------------------------------------------
(* Inputs *)

\* four of the keys of series_colors_dict
SeriesNames == {"Silver", "Gold", "Wide Screen", "Multi Screen"}

SeqsUpTo(S, n) == UNION {[1..k -> S] : k \in 0..n}

Cycle(pattern, n) == [k \in 1..n |-> pattern[((k - 1) % Len(pattern)) + 1]]

SeriesInputs ==
    SeqsUpTo(SeriesNames, MaxShort)
      \cup {Cycle(p, n) : p \in SeqsUpTo(SeriesNames, MaxPeriod) \ {<< >>},
                          n \in 0..MaxRecords}

Values ==
    (0..MaxSmall)
      \cup {500 * k : k \in 0..MaxHalfThousands}
      \cup {349999, 350000, 999499, 999500, 999999, 1000000, 1000001}

Positions == 0..MaxPos

----------------------------------------------------------------------------
(* generate_timeline_levels *)

threshold_level == 16

EmptyDict == [s \in {} |-> 0]

\* lines 71-72: a name not yet in the dict gets next_coef
SideDictAfter(dict, coef, s) ==
    IF s \notin DOMAIN dict THEN dict @@ (s :> coef) ELSE dict

\* next_coef never flipped
NextCoefAfter_NoFlip(dict, coef, s) == coef

\* next_coef flipped by every record, new name or not
NextCoefAfter_EveryRecord(dict, coef, s) == coef * (-1)

\* lines 71-73: next_coef flips when, and only when, the name was new
NextCoefAfter(dict, coef, s) ==
    IF s \notin DOMAIN dict THEN coef * (-1) ELSE coef

\* the append placed in the else branch: nothing is emitted at the threshold
LevelsAfter_SkipAtThreshold(lv, c, p, n) ==
    IF c > 0 THEN (IF p = threshold_level THEN lv ELSE Append(lv, p))
    ELSE IF c < 0 THEN (IF n = -threshold_level THEN lv ELSE Append(lv, n))
    ELSE lv

\* lines 75-76, 81-82: the level appended for a record of coefficient c
LevelsAfter(lv, c, p, n) ==
    IF c > 0 THEN Append(lv, p)
    ELSE IF c < 0 THEN Append(lv, n)
    ELSE lv

\* positive_level advanced by every record, whatever its side
PositiveAfter_AnySide(p, c) ==
    IF p = threshold_level THEN 2 ELSE p + 1

\* the ceiling tested with > instead of ==
PositiveAfter_Overshoot(p, c) ==
    IF c > 0
    THEN IF p > threshold_level THEN 2 ELSE p + c
    ELSE p

\* lines 75-80
PositiveAfter(p, c) ==
    IF c > 0
    THEN IF p = threshold_level THEN 2 ELSE p + c
    ELSE p

\* the floor reset made symmetric with the ceiling reset
NegativeAfter_ResetMinusTwo(n, c) ==
    IF c > 0 THEN n
    ELSE IF c < 0
    THEN IF n = -threshold_level THEN -2 ELSE n + c
    ELSE n

\* lines 81-86
NegativeAfter(n, c) ==
    IF c > 0 THEN n
    ELSE IF c < 0
    THEN IF n = -threshold_level THEN -3 ELSE n + c
    ELSE n

\* one iteration of the for loop, lines 70-86
LoopStep ==
    /\ pc = "loop"
    /\ i < Len(series)
    /\ LET s    == series[i + 1]
           dict == SideDictAfter(series_side_dict, next_coef, s)
           c    == dict[s]
       IN  /\ series_side_dict' = dict
           /\ next_coef' = NextCoefAfter(series_side_dict, next_coef, s)
           /\ levels' = LevelsAfter(levels, c, positive_level, negative_level)
           /\ positive_level' = PositiveAfter(positive_level, c)
           /\ negative_level' = NegativeAfter(negative_level, c)
    /\ i' = i + 1
    /\ UNCHANGED << call, auto_levels, series, pc, ret, column, raised_in >>
    /\ UNCHANGED formatVars

\* line 88, returning to line 331
GenerateReturn ==
    /\ pc = "loop"
    /\ i = Len(series)
    /\ ret' = levels
    /\ pc' = "assign"
    /\ UNCHANGED << call, auto_levels, series, series_side_dict, positive_level,
                    negative_level, next_coef, levels, i, column, raised_in >>
    /\ UNCHANGED formatVars

----------------------------------------------------------------------------
(* get_timeline_levels *)

\* lines 102-110
TimelineTable ==
    << 2, 3, 4, 5, 6, -2, -3, -4, 8, 9,
       10, 11, 12, 13, 14, 15, 16, 17, -2, -3,
       2, -4, -5, -6, -7, 6, 7, 8, 3, -8,
       9, 4, 11, 12, 13, -9, 14, -10, -14, -15,
       15, -2, -3, 16, -4, -11, 5, -12, -7, -8,
       -9, -13, 13, -14, 6, 7, 8, -15, -16, 9,
       2, 2, 3 >>

\* the slice bound off by one
SliceTo_OffByOne(lst, n) ==
    SubSeq(lst, 1, (IF n < Len(lst) THEN n ELSE Len(lst)) - 1)

\* Python's lst[:n] for n >= 0: the first n elements, or all of them when
\* there are fewer than n; a slice never raises
SliceTo(lst, n) == SubSeq(lst, 1, IF n < Len(lst) THEN n ELSE Len(lst))

\* the table indexed entry by entry, which raises past its end
GetTimelineLevels_Indexing ==
    /\ pc = "get"
    /\ IF Len(series) > Len(TimelineTable)
       THEN /\ raised_in' = "get_timeline_levels"
            /\ pc' = "raised"
            /\ UNCHANGED ret
       ELSE /\ ret' = [k \in 1..Len(series) |-> TimelineTable[k]]
            /\ pc' = "assign"
            /\ UNCHANGED raised_in
    /\ UNCHANGED << call, auto_levels, series, series_side_dict, positive_level,
                    negative_level, next_coef, levels, i, column >>
    /\ UNCHANGED << value, pos, text >>

\* lines 102-112, returning to line 333
GetTimelineLevels ==
    /\ pc = "get"
    /\ ret' = SliceTo(TimelineTable, Len(series))
    /\ pc' = "assign"
    /\ UNCHANGED << call, auto_levels, series, series_side_dict, positive_level,
                    negative_level, next_coef, levels, i, column, raised_in >>
    /\ UNCHANGED formatVars

----------------------------------------------------------------------------
(* visualize_timeline, lines 330-333 *)

\* plotting_df["level"] = <list>: pandas stores a list as long as the frame
\* and raises ValueError for any other length
AssignLevel ==
    /\ pc = "assign"
    /\ IF Len(ret) = Len(series)
       THEN /\ column' = ret
            /\ pc' = "done"
            /\ UNCHANGED raised_in
       ELSE /\ raised_in' = "visualize_timeline"
            /\ pc' = "raised"
            /\ UNCHANGED column
    /\ UNCHANGED << call, auto_levels, series, series_side_dict, positive_level,
                    negative_level, next_coef, levels, i, ret >>
    /\ UNCHANGED formatVars

----------------------------------------------------------------------------
(* millions_formatter *)

Digit(d) == <<"0", "1", "2", "3", "4", "5", "6", "7", "8", "9">>[d + 1]

RECURSIVE Digits(_)
\* str(n) of an integer n >= 0
Digits(n) == IF n < 10 THEN << Digit(n) >> ELSE Digits(n \div 10) \o << Digit(n % 10) >>

\* value * 1e-3 as a binary64 is exactly k + 0.5 for every value 1000 * k + 500
\* below 10^6, and ".0f" rounds an exact half to the even neighbour
RoundThousands(v) ==
    LET q == v \div 1000
        r == v % 1000
    IN  IF r > 500 \/ (r = 500 /\ q % 2 = 1) THEN q + 1 ELSE q

\* The values 100000 * t + 50000 below 3 * 10^6 whose binary64 product
\* value * 1e-6 lies at or above the decimal half and is printed rounded up
\* by ".1f"; the products of the other such values lie below it
TenthsTiesUp == {1050000, 1750000, 2350000, 2750000, 2850000}

RoundTenthsOfMillions(v) ==
    LET q == v \div 100000
        r == v % 100000
    IN  IF r > 50000 \/ (r = 50000 /\ v \in TenthsTiesUp) THEN q + 1 ELSE q

\* the thresholds tested with > instead of >=
millions_formatter_Strict(v, p) ==
    IF v > 1000000
    THEN LET t == RoundTenthsOfMillions(v)
         IN  Digits(t \div 10) \o << ".", Digit(t % 10), "M" >>
    ELSE IF v > 1000
    THEN Digits(RoundThousands(v)) \o << "K" >>
    ELSE Digits(v)

\* lines 131-136
millions_formatter(v, p) ==
    IF v >= 1000000
    THEN LET t == RoundTenthsOfMillions(v)
         IN  Digits(t \div 10) \o << ".", Digit(t % 10), "M" >>
    ELSE IF v >= 1000
    THEN Digits(RoundThousands(v)) \o << "K" >>
    ELSE Digits(v)

MillionsFormatter ==
    /\ pc = "format"
    /\ text' = millions_formatter(value, pos)
    /\ pc' = "done"
    /\ UNCHANGED << call, value, pos >>
    /\ UNCHANGED timelineVars

----------------------------------------------------------------------------
(* Specification *)

Init ==
    /\ call \in {"visualize_timeline", "millions_formatter"}
    /\ IF call = "visualize_timeline"
       THEN /\ auto_levels \in BOOLEAN
            /\ series \in SeriesInputs
            /\ value = 0
            /\ pos = 0
       ELSE /\ auto_levels = TRUE
            /\ series = << >>
            /\ value \in Values
            /\ pos \in Positions
    /\ pc = IF call = "millions_formatter" THEN "format"
            ELSE IF auto_levels THEN "loop" ELSE "get"
    \* lines 64-69
    /\ series_side_dict = EmptyDict
    /\ positive_level = 2
    /\ negative_level = -2
    /\ next_coef = 1
    /\ levels = << >>
    /\ i = 0
    /\ ret = << >>
    /\ column = << >>
    /\ raised_in = "none"
    /\ text = << >>

Next ==
    \/ LoopStep
    \/ GenerateReturn
    \/ GetTimelineLevels
    \/ AssignLevel
    \/ MillionsFormatter

Spec == Init /\ [][Next]_vars

----------------------------------------------------------------------------
(* Vocabulary of the properties *)

IsGenerateCall == call = "visualize_timeline" /\ auto_levels

IsGetCall == call = "visualize_timeline" /\ ~auto_levels

IsFormatCall == call = "millions_formatter"

\* the coefficient of the series of record k, for a record already consumed
CoefAt(k) == series_side_dict[series[k]]

RECURSIVE PrevFrom(_, _)
\* the last index at or before k of a record of series s, or 0
PrevFrom(s, k) ==
    IF k = 0 THEN 0 ELSE IF series[k] = s THEN k ELSE PrevFrom(s, k - 1)

\* the previous occurrence of the series of record b, or 0
PrevOccurrence(b) == PrevFrom(series[b], b - 1)

\* no record strictly between a and b is on the side of record b
NoSameSideBetween(a, b) == \A m \in (a + 1)..(b - 1) : CoefAt(m) # CoefAt(b)

\* the number of records before k whose series has coefficient c
SideCountBefore(k, c) == Cardinality({m \in 1..(k - 1) : CoefAt(m) = c})

\* the index of the first record of series s
FirstIndex(s) == CHOOSE k \in 1..i : series[k] = s /\ \A m \in 1..(k - 1) : series[m] # s

\* the position of s among the distinct names in order of first appearance
RankOf(s) == Cardinality({series[m] : m \in 1..FirstIndex(s)})

RoundRobinCoef(n) == IF n % 2 = 1 THEN 1 ELSE -1

Abs(x) == IF x < 0 THEN -x ELSE x

SilverGoldSilver == << "Silver", "Gold", "Silver" >>

----------------------------------------------------------------------------
(* C1 *)

\* what C1 says of record b and the previous record a of the same series
C1Relation(lv, a, b) ==
    LET c == CoefAt(b)
    IN  lv[b] = IF lv[a] = 16 * c THEN (IF c > 0 THEN 2 ELSE -3) ELSE lv[a] + c

\* C1 as stated: for any two consecutive occurrences of one series, whatever
\* lies between them, the later level is the earlier one plus the series'
\* coefficient, or 2 / -3 when the earlier one was 16 / -16.
C1_AnyGap ==
    IsGenerateCall =>
        \A b \in 1..Len(levels) :
            PrevOccurrence(b) > 0 => C1Relation(levels, PrevOccurrence(b), b)

C1AdjacentOnSide(lv, b) ==
    LET a == PrevOccurrence(b)
    IN  (a > 0 /\ NoSameSideBetween(a, b)) => C1Relation(lv, a, b)

\* C1 amended: the relation holds for two consecutive occurrences of one
\* series when no record of another series on the same side lies between them
\* (checked for the record just emitted at every step of the loop, and for
\* every record of the returned list).
C1_NoSameSideBetween ==
    IsGenerateCall =>
        /\ (pc = "loop" /\ i > 0) => C1AdjacentOnSide(levels, i)
        /\ pc = "assign" => \A b \in 1..Len(ret) : C1AdjacentOnSide(ret, b)

\* a returned list in which a series recurs across records of the other side
\* at the ceiling and at the floor
C1_Witness ==
    /\ IsGenerateCall
    /\ pc = "assign"
    /\ \E b \in 1..Len(ret) :
          LET a == PrevOccurrence(b)
          IN  a > 0 /\ b > a + 1 /\ NoSameSideBetween(a, b) /\ ret[a] = 16 /\ ret[b] = 2
    /\ \E b \in 1..Len(ret) :
          LET a == PrevOccurrence(b)
          IN  a > 0 /\ b > a + 1 /\ NoSameSideBetween(a, b) /\ ret[a] = -16 /\ ret[b] = -3

----------------------------------------------------------------------------
(* C2 *)

\* C2 as stated: the input Silver, Gold, Silver returns [2, 2, 3].
C2_TwoTwoThree ==
    (IsGenerateCall /\ pc = "assign" /\ series = SilverGoldSilver) => ret = << 2, 2, 3 >>

\* C2 amended: the input Silver, Gold, Silver returns [2, -2, 3].
C2_TwoMinusTwoThree ==
    (IsGenerateCall /\ pc = "assign" /\ series = SilverGoldSilver) => ret = << 2, -2, 3 >>

C2_Witness ==
    IsGenerateCall /\ pc = "assign" /\ series = SilverGoldSilver /\ Len(ret) = 3

----------------------------------------------------------------------------
(* C3 *)

C3_State ==
    IsGenerateCall =>
        /\ DOMAIN series_side_dict = {series[m] : m \in 1..i}
        /\ \A s \in DOMAIN series_side_dict :
              series_side_dict[s] = RoundRobinCoef(RankOf(s))
        /\ next_coef = RoundRobinCoef(Cardinality(DOMAIN series_side_dict) + 1)

C3_Step ==
    /\ \A s \in DOMAIN series_side_dict :
          s \in DOMAIN series_side_dict' /\ series_side_dict'[s] = series_side_dict[s]
    /\ (next_coef' # next_coef) <=>
          (pc = "loop" /\ i < Len(series) /\ series[i + 1] \notin DOMAIN series_side_dict)

\* C3: the n-th distinct series name, in order of first appearance, holds
\* coefficient +1 iff n is odd; next_coef flips exactly when a record brings
\* a new name; and a coefficient once stored never changes.
C3_RoundRobin == [](C3_State) /\ [][C3_Step]_vars

\* four distinct names seen, and a record of an already-seen series consumed
C3_Witness ==
    /\ IsGenerateCall
    /\ Cardinality(DOMAIN series_side_dict) = 4
    /\ i > 4
    /\ series_side_dict[series[i]] = -1
    /\ RankOf(series[i]) = 4

----------------------------------------------------------------------------
(* C4 *)

\* C4: every record consumed has emitted exactly one level, and the returned
\* list is as long as the input.
C4_LengthPreserved ==
    IsGenerateCall =>
        /\ pc = "loop" => Len(levels) = i
        /\ pc \in {"assign", "done", "raised"} => Len(ret) = Len(series)
        /\ pc # "raised"

\* a stored result for an input that took both counters through a reset
C4_Witness ==
    /\ IsGenerateCall
    /\ pc = "done"
    /\ Len(column) = Len(series)
    /\ \E a, b \in 1..Len(column) : a < b /\ column[a] = 16 /\ column[b] = 2
    /\ \E a, b \in 1..Len(column) : a < b /\ column[a] = -16 /\ column[b] = -3

----------------------------------------------------------------------------
(* C5 *)

\* C5 as stated: with more than 63 entries the request ends in a failure
\* raised by get_timeline_levels, not in a returned list.
C5_RaisedInGet ==
    (IsGetCall /\ Len(series) > 63 /\ pc # "get") =>
        (pc = "raised" /\ raised_in = "get_timeline_levels")

\* C5 amended: with more than 63 entries get_timeline_levels raises nothing
\* and returns the whole 63-entry table, a list shorter than its input; the
\* failure is raised afterwards, in visualize_timeline, when that list is
\* assigned as the level column.
C5_RaisedInCaller ==
    (IsGetCall /\ Len(series) > 63) =>
        /\ pc = "assign" => (ret = TimelineTable /\ Len(ret) < Len(series) /\ raised_in = "none")
        /\ pc = "raised" => raised_in = "visualize_timeline"
        /\ pc \in {"get", "assign", "raised"}

C5_Witness ==
    IsGetCall /\ Len(series) > 63 /\ pc = "raised" /\ Len(ret) = 63

----------------------------------------------------------------------------
(* C6 *)

\* C6: for an input of k <= 63 entries get_timeline_levels returns the first
\* k values of the table, whatever the entries are; 5 entries give
\* [2, 3, 4, 5, 6], 63 entries give the whole table, which ends 2, 2, 3.
C6_TablePrefix ==
    (IsGetCall /\ pc = "assign" /\ Len(series) <= 63) =>
        /\ Len(TimelineTable) = 63
        /\ ret = [k \in 1..Len(series) |-> TimelineTable[k]]
        /\ Len(series) = 5 => ret = << 2, 3, 4, 5, 6 >>
        /\ Len(series) = 63 =>
              (ret = TimelineTable /\ << ret[61], ret[62], ret[63] >> = << 2, 2, 3 >>)

C6_Witness ==
    /\ IsGetCall
    /\ pc = "assign"
    /\ Len(series) = 5
    /\ series[1] # series[2]
    /\ ret = << 2, 3, 4, 5, 6 >>

----------------------------------------------------------------------------
(* C7 *)

----------------------------------------------------------------------------
(* C8 *)

\* C8: the docstring examples: 1500000 -> '1.5M', 2500 -> '2500',
\* 350000 -> '350K'.
C8_DocstringExamples ==
    (IsFormatCall /\ pc = "done") =>
        /\ value = 1500000 => text = << "1", ".", "5", "M" >>
        /\ value = 2500 => text = << "2", "5", "0", "0" >>
        /\ value = 350000 => text = << "3", "5", "0", "K" >>

----------------------------------------------------------------------------
(* C9 *)

\* the level C9 gives to the j-th record (from 0) of side c
CycleLevel(c, j) ==
    IF c > 0 THEN 2 + (j % 15)
    ELSE IF j <= 14 THEN -2 - j
    ELSE -3 - ((j - 15) % 14)

C9At(lv, k) == lv[k] = CycleLevel(CoefAt(k), SideCountBefore(k, CoefAt(k)))

\* C9: the j-th record of the positive side gets 2 + (j mod 15), the j-th
\* record of the negative side gets -2 - j up to j = 14 and
\* -3 - ((j - 15) mod 14) from then on, counting over all series of the side;
\* each counter holds the level of the next record of its own side, so the
\* records of the other side do not move it.
C9_SharedCycles ==
    IsGenerateCall =>
        /\ pc = "loop" =>
              /\ i > 0 => C9At(levels, i)
              /\ positive_level = CycleLevel(1, SideCountBefore(i + 1, 1))
              /\ negative_level = CycleLevel(-1, SideCountBefore(i + 1, -1))
        /\ pc = "assign" => \A k \in 1..Len(ret) : C9At(ret, k)

\* a returned list holding the 16th positive record and the 30th negative one
C9_Witness ==
    /\ IsGenerateCall
    /\ pc = "assign"
    /\ \E k \in 1..Len(ret) :
          CoefAt(k) = 1 /\ SideCountBefore(k, 1) = 15 /\ ret[k] = 2
    /\ \E k \in 1..Len(ret) :
          CoefAt(k) = -1 /\ SideCountBefore(k, -1) = 29 /\ ret[k] = -3

----------------------------------------------------------------------------
(* C10 *)

\* C10: at every step positive_level is in 2..16 and negative_level in
\* -16..-2, and every emitted level is in 2..16 for a series of coefficient
\* +1 and in -16..-2 for a series of coefficient -1.
C10_Ranges ==
    IsGenerateCall =>
        /\ positive_level \in 2..16
        /\ negative_level \in (-16)..(-2)
        /\ \A k \in 1..Len(levels) :
              IF CoefAt(k) > 0 THEN levels[k] \in 2..16
              ELSE CoefAt(k) = -1 /\ levels[k] \in (-16)..(-2)

\* both counters at their extremes inside the loop
C10_Witness ==
    /\ IsGenerateCall
    /\ pc = "loop"
    /\ positive_level = 16
    /\ negative_level = -16
    /\ i < Len(series)

====
